---- MODULE Spec2Model ----
(***************************************************************************)
(* Model of PDF_Analyzer/pdf_checker.py: is_valid_pdf, check_formatting,   *)
(* detect_sections_dynamic, analyze_pdf (Spec, SessionSpec, PresetSpec);   *)
(* of the handler of the Analyze button in PDF_Analyzer/app.py (UiSpec);   *)
(* and of SocialMediaGenerator.generate_posts in                           *)
(* Q2/social_post_generator.py (GenSpec).                                  *)
(*                                                                         *)
(* A text is a sequence of one-character strings.  A Python dict is a      *)
(* sequence of [key, val] records in insertion order.  The three decoders  *)
(* (PyPDF2, pdfplumber, PyMuPDF) are external: what each of them does on   *)
(* the file is part of the input file record.                              *)
(***************************************************************************)
EXTENDS Integers, Sequences, FiniteSets, TLC

\* ------------------------------------------------------------------ bounds
MaxPages == 2
MaxCalls == 2
MaxSessionCalls == 3

\* ------------------------------------------------------- characters, str
UpperLetters == <<"A","B","C","D","E","F","G","H","I","J","K","L","M",
                  "N","O","P","Q","R","S","T","U","V","W","X","Y","Z">>
LowerLetters == <<"a","b","c","d","e","f","g","h","i","j","k","l","m",
                  "n","o","p","q","r","s","t","u","v","w","x","y","z">>

Range(s) == {s[j] : j \in 1..Len(s)}

IsUpper(c) == c \in Range(UpperLetters)
IsLower(c) == c \in Range(LowerLetters)

\* a cased letter outside A-Z and a-z: str.isupper() and str.lower() know it,
\* the character classes [A-Z] and [a-z] of the patterns do not
E_ACUTE == "É"
e_acute == "é"
IsUpperCased(c) == IsUpper(c) \/ c = E_ACUTE
IsLowerCased(c) == IsLower(c) \/ c = e_acute
IsSpace(c) == c \in {" ", "\t", "\r", "\n"}

\* str.lower() on one character
LowerChar(c) ==
  IF IsUpper(c)
    THEN LowerLetters[CHOOSE j \in 1..26 : UpperLetters[j] = c]
    ELSE IF c = E_ACUTE THEN e_acute ELSE c

\* str.lower()
Lower(s) == [j \in 1..Len(s) |-> LowerChar(s[j])]

\* str.strip(): drop leading and trailing whitespace
RECURSIVE LStrip(_)
LStrip(s) ==
  IF s # <<>> /\ IsSpace(Head(s)) THEN LStrip(Tail(s)) ELSE s

RECURSIVE RStrip(_)
RStrip(s) ==
  IF s # <<>> /\ IsSpace(s[Len(s)]) THEN RStrip(SubSeq(s, 1, Len(s) - 1)) ELSE s

Strip(s) == RStrip(LStrip(s))

\* str.isupper(): at least one cased character and no lowercase one
IsUpperStr(s) ==
  /\ \E j \in 1..Len(s) : IsUpperCased(s[j])
  /\ \A j \in 1..Len(s) : ~IsLowerCased(s[j])

\* the pattern without its leading [A-Z]: any letter may start the line
MatchesHeadingRe_AnyCase(s) ==
  /\ Len(s) >= 3
  /\ IsUpper(s[1]) \/ IsLower(s[1])
  /\ s[Len(s)] = ":"
  /\ \A j \in 2..(Len(s) - 1) :
       IsUpper(s[j]) \/ IsLower(s[j]) \/ IsSpace(s[j]) \/ s[j] = "-"

\* re.match(r"^[A-Z][A-Za-z\s\-]+:$", s)
MatchesHeadingRe(s) ==
  /\ Len(s) >= 3
  /\ IsUpper(s[1])
  /\ s[Len(s)] = ":"
  /\ \A j \in 2..(Len(s) - 1) :
       IsUpper(s[j]) \/ IsLower(s[j]) \/ IsSpace(s[j]) \/ s[j] = "-"

\* re.sub(r"[^a-z ]", "", s)
RECURSIVE KeepLettersSpaces(_)
KeepLettersSpaces(s) ==
  IF s = <<>> THEN <<>>
  ELSE IF IsLower(Head(s)) \/ Head(s) = " "
         THEN <<Head(s)>> \o KeepLettersSpaces(Tail(s))
         ELSE KeepLettersSpaces(Tail(s))

\* str.replace(' ', '_')
ReplaceSpaces(s) == [j \in 1..Len(s) |-> IF s[j] = " " THEN "_" ELSE s[j]]

\* str.split("\n")
RECURSIVE SplitLines(_, _)
SplitLines(text, cur) ==
  IF text = <<>> THEN <<cur>>
  ELSE IF Head(text) = "\n"
         THEN <<cur>> \o SplitLines(Tail(text), <<>>)
         ELSE SplitLines(Tail(text), Append(cur, Head(text)))

Split(text) == SplitLines(text, <<>>)

\* the heading test of the scan, on the raw line
IsHeading(line) == MatchesHeadingRe(Strip(line)) \/ IsUpperStr(line)

\* line_clean, then section_name
SectionName(line) == Strip(KeepLettersSpaces(Lower(Strip(line))))

\* ------------------------------------------------------------------ dicts
Keys(d) == {d[j].key : j \in 1..Len(d)}
HasKey(d, k) == k \in Keys(d)
Get(d, k) == d[CHOOSE j \in 1..Len(d) : d[j].key = k].val

\* d[k] = v : an existing key keeps its position, a new key goes last
DictSet(d, k, v) ==
  IF HasKey(d, k)
    THEN [j \in 1..Len(d) |-> IF d[j].key = k THEN [key |-> k, val |-> v] ELSE d[j]]
    ELSE Append(d, [key |-> k, val |-> v])

\* d.update(e)
RECURSIVE DictUpdate(_, _)
DictUpdate(d, e) ==
  IF e = <<>> THEN d
  ELSE DictUpdate(DictSet(d, Head(e).key, Head(e).val), Tail(e))

\* values of the content mapping: an integer or a string
IntVal(n) == [isInt |-> TRUE, n |-> n, s |-> ""]
StrVal(s) == [isInt |-> FALSE, n |-> 0, s |-> s]

\* "sub in s"
Contains(s, sub) ==
  \E j \in 0..(Len(s) - Len(sub)) : SubSeq(s, j + 1, j + Len(sub)) = sub

\* ----------------------------------------------------------------- inputs
\* Texts used in the sample documents
SUMMARY == <<"S","U","M","M","A","R","Y">>
SKILLS_COLON == <<"S","K","I","L","L","S",":">>
SKILLS_PAGES == <<"S","K","I","L","L","S"," ","P","A","G","E","S">>
Body == <<"A","b","-","c">>
skills_colon == <<"s","k","i","l","l","s",":">>
NL == <<"\n">>

summary == <<"s","u","m","m","a","r","y">>
skills == <<"s","k","i","l","l","s">>
skills_sp_pages == <<"s","k","i","l","l","s"," ","p","a","g","e","s">>
ghost == <<"g","h","o","s","t">>

Times == <<"T","i","m","e","s">>
TimesNewRoman == <<"T","i","m","e","s","N","e","w","R","o","m","a","n">>
Arial == <<"A","r","i","a","l">>
SubsetTimesPSMT == <<"A","B","C","D","E","F","+","T","i","m","e","s","N","e","w",
                     "R","o","m","a","n","P","S","M","T">>
times_lower == <<"t","i","m","e","s">>

\* page.get_text("text") of the sample pages: every line ends in a newline
PageSamples ==
  { Body \o NL,
    SUMMARY \o NL,
    SKILLS_COLON \o NL \o Body \o NL,
    Body \o NL \o SKILLS_PAGES \o NL,
    skills_colon \o NL \o Body \o NL }

\* "SUMMARY", 2 body pages, "SKILLS:", 1 body page; each heading on a page of its own
ExampleDoc ==
  << SUMMARY \o NL, Body \o NL, Body \o NL, SKILLS_COLON \o NL, Body \o NL >>

\* headings the scan treats in a special way
WORK_HISTORY == <<"W","o","r","k"," ","-"," ","H","i","s","t","o","r","y",":">>
EXECUTIVE_SUMMARY ==
  <<"E","X","E","C","U","T","I","V","E"," ","S","U","M","M","A","R","Y">>

\* the heading of the first section comes back after a second section
RepeatDoc ==
  << SUMMARY \o NL, SKILLS_COLON \o NL, SUMMARY \o NL, Body \o NL >>

\* upper-case lines without any letter of a-z, before and after a heading
AccentDoc ==
  << <<E_ACUTE>> \o NL, SUMMARY \o NL \o <<E_ACUTE, E_ACUTE>> \o NL \o SUMMARY \o NL >>

\* a page before the first heading, a heading in the middle of a page, and
\* a heading with a hyphen between two words
ThreeSectionDoc ==
  << Body \o NL,
     SUMMARY \o NL \o Body \o NL,
     Body \o NL \o SKILLS_COLON \o NL,
     Body \o NL,
     WORK_HISTORY \o NL \o Body \o NL >>

ScanDocs == {RepeatDoc, AccentDoc, ThreeSectionDoc}

Docs ==
  (UNION {[1..n -> PageSamples] : n \in 0..MaxPages}) \cup {ExampleDoc} \cup ScanDocs

\* What pdfplumber reports for page 1: where it raises (if anywhere), the
\* characters (font name, size in 1/100 pt) and the geometry (in points)
Char(f, sz) == [fontname |-> f, size |-> sz]
Typo(fault, chars, w, h, box) ==
  [plumber |-> fault, chars |-> chars, width |-> w, height |-> h, bbox |-> box]

\* US Letter: the box of the whole page, and a box one inch inside it
PageBox == <<0, 0, 612, 792>>
InchBox == <<72, 72, 540, 720>>

\* boxes at the edges of the tolerance: 67 and 77 on every side, 66 on one side
Box67 == <<67, 67, 545, 725>>
Box77 == <<77, 77, 535, 715>>
OneSide66 ==
  { <<66, 72, 540, 720>>, <<72, 66, 540, 720>>, <<72, 72, 546, 720>>, <<72, 72, 540, 726>> }

PlumberFaults == {"open", "page", "chars", "bbox"}

TypoSamples ==
  { Typo("ok", <<Char(Times, 1200)>>, 612, 792, InchBox),
    Typo("ok", <<Char(Arial, 1000), Char(Times, 1198)>>, 612, 792, PageBox),
    Typo("ok", <<Char(Arial, 1100)>>, 612, 792, InchBox),
    Typo("ok", <<>>, 612, 792, PageBox) }
  \cup { Typo(f, <<Char(Times, 1200)>>, 612, 792, InchBox) : f \in PlumberFaults }
  \cup { Typo("bbox", <<Char(Arial, 1100)>>, 612, 792, InchBox) }
  \cup { Typo("ok", <<Char(SubsetTimesPSMT, 1200)>>, 612, 792, InchBox),
         Typo("ok", <<Char(times_lower, 1200)>>, 612, 792, InchBox),
         Typo("ok", <<Char(Arial, 900), Char(Arial, 1204), Char(Arial, 1400)>>, 612, 792, InchBox),
         Typo("ok", <<Char(Times, 1194), Char(Times, 1206)>>, 612, 792, InchBox),
         Typo("ok", <<>>, 612, 792, InchBox),
         Typo("ok", <<Char(Times, 1200)>>, 612, 792, Box67),
         Typo("ok", <<Char(Times, 1200)>>, 612, 792, Box77) }
  \cup { Typo("ok", <<Char(Times, 1200)>>, 612, 792, b) : b \in OneSide66 }

\* What PyMuPDF does on the file: opens and reads every page, raises in
\* fitz.open, or raises when the pages are loaded
FitzOutcomes == {"ok", "open", "load"}

\* What PyPDF2 does on the file: PdfReader(file_path) returns or raises
ReaderOutcomes == {"ok", "raises"}

File(rd, typo, fz, pages) ==
  [reader |-> rd, typo |-> typo, fitz |-> fz, pages |-> pages]

DefaultTypo == Typo("ok", <<Char(Times, 1200)>>, 612, 792, InchBox)
DefaultDoc == << SUMMARY \o NL, Body \o NL >>

\* The input files: a file PyPDF2 rejects, and files it accepts
Files ==
  { File("raises", DefaultTypo, "open", <<>>), File("raises", DefaultTypo, "ok", DefaultDoc) }
  \cup { File("ok", t, "ok", DefaultDoc) : t \in TypoSamples }
  \cup { File("ok", DefaultTypo, "ok", d) : d \in Docs }
  \cup { File("ok", t, fz, DefaultDoc) :
           t \in {DefaultTypo} \cup {u \in TypoSamples : u.plumber # "ok"},
           fz \in FitzOutcomes \ {"ok"} }

\* max_page_limits: None, or a mapping from section name to a page limit
None == [isNone |-> TRUE, map |-> <<>>]
Limits(m) == [isNone |-> FALSE, map |-> m]

LimitSamples ==
  { None,
    Limits(<<>>),
    Limits((summary :> 2) @@ (skills :> 1)),
    Limits((summary :> 2) @@ (skills :> 1) @@ (ghost :> 1) @@ (skills_sp_pages :> 1)) }

\* ------------------------------------------------------------------ state
VARIABLES
  file,            \* the PDF every call of the session analyses
  pc,              \* position in analyze_pdf; "idle" between calls
  max_page_limits, \* argument of the running call
  report,          \* analyze_pdf: report
  result,          \* check_formatting: result
  i,               \* detect_sections_dynamic: index of the page being read
  lines,           \* detect_sections_dynamic: lines of page i still to scan
  section_starts,  \* detect_sections_dynamic: name -> first page, a dict
  section_pages,   \* detect_sections_dynamic: name -> list of pages, a dict
  sec_result,      \* detect_sections_dynamic: result
  handles,         \* the document handles the running call holds open
  history,         \* the finished calls: arguments and outcome
  \* the web page of the analyzer (PDF_Analyzer/app.py)
  ui_pc,           \* position in the handler of the Analyze button
  tmp_files,       \* the temporary files on disk, by number
  temp_pdf_path,   \* the temporary file of the running handler
  os_locks_open_files, \* the platform refuses to delete a file that is open
  shown,           \* what the page shows for the last click
  \* the post generator (Q2/social_post_generator.py)
  gen_pc,          \* position in generate_posts
  llm_raises_for,  \* the platforms for whose prompt the language model call raises
  target_platforms, \* argument of the running call
  remaining,       \* the platforms the loop has still to take
  platform,        \* the platform of the running iteration
  generated_posts, \* generate_posts: generated_posts, a dict
  printed,         \* standard output: the platforms reported as failed
  returned,        \* what the last finished call returned
  generation_history \* self.generation_history

pdf_vars == << file, pc, max_page_limits, report, result, i, lines,
               section_starts, section_pages, sec_result, handles, history >>

ui_vars == << ui_pc, tmp_files, temp_pdf_path, os_locks_open_files, shown >>

gen_vars == << gen_pc, llm_raises_for, target_platforms, remaining, platform,
               generated_posts, printed, returned, generation_history >>

vars == << pdf_vars, ui_vars, gen_vars >>

scan_vars == << i, lines, section_starts, section_pages, sec_result >>

EmptyReport == [format |-> <<>>, content |-> <<>>]

\* no click on the web page yet
UiIdle ==
  /\ ui_pc = "idle"
  /\ tmp_files = {}
  /\ temp_pdf_path = 0
  /\ os_locks_open_files = FALSE
  /\ shown = "none"

\* SocialMediaGenerator.__init__ (lines 544-550), no call yet
GenIdle ==
  /\ gen_pc = "idle"
  /\ llm_raises_for = {}
  /\ target_platforms = <<>>
  /\ remaining = <<>>
  /\ platform = <<>>
  /\ generated_posts = <<>>
  /\ printed = <<>>
  /\ returned = <<>>
  /\ generation_history = <<>>

Init ==
  /\ file \in Files
  /\ pc = "idle"
  /\ max_page_limits = None
  /\ report = EmptyReport
  /\ result = <<>>
  /\ i = 0
  /\ lines = <<>>
  /\ section_starts = <<>>
  /\ section_pages = <<>>
  /\ sec_result = <<>>
  /\ handles = {}
  /\ history = <<>>
  /\ UiIdle
  /\ GenIdle

\* ------------------------------------------------------------ analyze_pdf
\* a bare except that answers True
is_valid_pdf_AlwaysTrue(f) == TRUE

\* is_valid_pdf: PdfReader(file_path) returns, or raises and the bare
\* except maps it to False
is_valid_pdf(f) == IF f.reader = "raises" THEN FALSE ELSE TRUE

\* analyze_pdf without the early return of line 109
AfterValidate_NoReturn(ok) == "check_formatting"

\* where analyze_pdf goes after the validity test
AfterValidate(ok) == IF ok THEN "check_formatting" ELSE "return"

\* a caller invokes analyze_pdf(pdf_path, max_page_limits); report is
\* created anew (lines 102-105)
CallFrom(maxCalls, samples) ==
  /\ pc = "idle"
  /\ Len(history) < maxCalls
  /\ \E l \in samples : max_page_limits' = l
  /\ report' = EmptyReport
  /\ handles' = {}
  /\ pc' = "validate"
  /\ UNCHANGED << file, result, scan_vars, history >>
  /\ UNCHANGED gen_vars

CallWithin(maxCalls) == CallFrom(maxCalls, LimitSamples) /\ UNCHANGED ui_vars

Call == CallWithin(MaxCalls)

\* lines 107-111; PdfReader reads the file into memory and keeps no handle
Validate ==
  /\ pc = "validate"
  /\ LET ok == is_valid_pdf(file) IN
       /\ report' = [report EXCEPT !.format =
                       DictSet(@, "file_type", IF ok THEN "pass" ELSE "fail")]
       /\ pc' = AfterValidate(ok)
  /\ UNCHANGED << file, max_page_limits, result, scan_vars, handles, history >>
  /\ UNCHANGED << ui_vars, gen_vars >>

\* ------------------------------------------------------- check_formatting
one_inch == 72
tolerance == 5

Abs(x) == IF x < 0 THEN -x ELSE x

\* round(float(size), 1): 1/100 pt to 1/10 pt, to the nearest
Round1(h) == (h + 5) \div 10

\* lines 29-34
Fonts(chars) == {chars[j].fontname : j \in 1..Len(chars)}
Sizes(chars) == {Round1(chars[j].size) : j \in 1..Len(chars)}

\* a test that wants every size on the page to be 12.0
FontSizeOk_AllSizes(chars) == Sizes(chars) = {120}

\* line 36: 12.0 is 120 tenths
FontSizeOk(chars) == 120 \in Sizes(chars)

\* a match that ignores case
FontFamilyOk_IgnoreCase(chars) ==
  \E f \in Fonts(chars) : Contains(Lower(f), Lower(Times))

\* line 38
FontFamilyOk(chars) ==
  \E f \in Fonts(chars) : Contains(f, Times) \/ Contains(f, TimesNewRoman)

\* lines 41-48: left, right, top, bottom
Margins(t) ==
  << t.bbox[1], t.width - t.bbox[3], t.height - t.bbox[4], t.bbox[2] >>

\* a tolerance that excludes its end points
MarginOk_Strict(t) ==
  \A j \in 1..4 : Abs(Margins(t)[j] - one_inch) < tolerance

\* line 53
MarginOk(t) ==
  \A j \in 1..4 : Abs(Margins(t)[j] - one_inch) <= tolerance

\* lines 21-25
InitialResult ==
  << [key |-> "font_size", val |-> "pass"],
     [key |-> "font_family", val |-> "pass"],
     [key |-> "margin", val |-> "pass"] >>

\* a handler that fails only the field whose computation raised last
FailAll_MarginOnly(r) ==
  [j \in 1..Len(r) |-> IF r[j].key = "margin" THEN [key |-> "margin", val |-> "fail"] ELSE r[j]]

\* line 57: {k: 'fail' for k in result}
FailAll(r) == [j \in 1..Len(r) |-> [key |-> r[j].key, val |-> "fail"]]

\* line 27: leaving the with block, normally or by an exception, closes the pdf
WithExit(h) == h \ {"pdfplumber"}

\* lines 21-28: the result starts all "pass"; pdfplumber.open or pdf.pages[0]
\* may raise
FmtOpen ==
  /\ pc = "check_formatting"
  /\ result' = InitialResult
  /\ pc' = IF file.typo.plumber \in {"open", "page"} THEN "fmt_except" ELSE "fmt_chars"
  /\ handles' = IF file.typo.plumber \in {"open", "page"}
                  THEN WithExit(handles) ELSE handles \cup {"pdfplumber"}
  /\ UNCHANGED << file, max_page_limits, report, scan_vars, history >>
  /\ UNCHANGED << ui_vars, gen_vars >>

\* a loop that also raises when the page has no character
CharsRaise_OnEmpty(t) == t.plumber = "chars" \/ t.chars = <<>>

\* lines 32-34: whether reading page.chars raises; an empty list does not
CharsRaise(t) == t.plumber = "chars"

\* lines 29-39: reading page.chars may raise, before any field is set
FmtChars ==
  /\ pc = "fmt_chars"
  /\ IF CharsRaise(file.typo)
       THEN /\ pc' = "fmt_except"
            /\ handles' = WithExit(handles)
            /\ UNCHANGED result
       ELSE /\ pc' = "fmt_margin"
            /\ UNCHANGED handles
            /\ result' =
                 LET r1 == IF FontSizeOk(file.typo.chars)
                             THEN result ELSE DictSet(result, "font_size", "fail")
                 IN  IF FontFamilyOk(file.typo.chars)
                       THEN r1 ELSE DictSet(r1, "font_family", "fail")
  /\ UNCHANGED << file, max_page_limits, report, scan_vars, history >>
  /\ UNCHANGED << ui_vars, gen_vars >>

\* lines 41-54: the geometry may raise, after the font fields are set
FmtMargin ==
  /\ pc = "fmt_margin"
  /\ IF file.typo.plumber = "bbox"
       THEN /\ pc' = "fmt_except"
            /\ UNCHANGED result
       ELSE /\ pc' = "fmt_return"
            /\ result' = IF MarginOk(file.typo)
                           THEN result ELSE DictSet(result, "margin", "fail")
  /\ UNCHANGED << file, max_page_limits, report, scan_vars, history >>
  /\ handles' = WithExit(handles)
  /\ UNCHANGED << ui_vars, gen_vars >>

\* lines 56-57: the bare except
FmtExcept ==
  /\ pc = "fmt_except"
  /\ result' = FailAll(result)
  /\ pc' = "fmt_return"
  /\ UNCHANGED << file, max_page_limits, report, scan_vars, handles, history >>
  /\ UNCHANGED << ui_vars, gen_vars >>

\* report["format"] = check_formatting(...) in place of .update(...)
MergeFormat_Assign(format, r) == r

\* how analyze_pdf merges the typography fields into report["format"] (line 112)
MergeFormat(format, r) == DictUpdate(format, r)

\* line 58, and line 112 of analyze_pdf
FmtReturn ==
  /\ pc = "fmt_return"
  /\ report' = [report EXCEPT !.format = MergeFormat(@, result)]
  /\ pc' = "detect_sections"
  /\ UNCHANGED << file, max_page_limits, result, scan_vars, handles, history >>
  /\ UNCHANGED << ui_vars, gen_vars >>

\* ------------------------------------------------ detect_sections_dynamic
_pages == <<"_","p","a","g","e","s">>

\* line 87 and line 88
PageKey(sec) == ReplaceSpaces(sec) \o _pages
StatusKey(sec) == ReplaceSpaces(sec)

\* sorted(s) of a set of integers
RECURSIVE Sorted(_)
Sorted(S) ==
  IF S = {} THEN <<>>
  ELSE LET m == CHOOSE x \in S : \A y \in S : x <= y
       IN  <<m>> \o Sorted(S \ {m})

\* sorted(pages) of a list the scan already keeps ascending: no set()
SortedSet_NoDedupe(pages) == pages

\* line 83: sorted(set(pages))
SortedSet(pages) == Sorted(Range(pages))

\* a scan that returns the lists as the loop left them
SortAll_Skipped(sp) == sp

\* lines 82-83
SortAll(sp) == [j \in 1..Len(sp) |-> [key |-> sp[j].key, val |-> SortedSet(sp[j].val)]]

\* a lookup under the output form of the name, with underscores
Status_UnderscoreKeys(sec, n, lim) ==
  IF ~lim.isNone /\ DOMAIN lim.map # {} /\ ReplaceSpaces(sec) \in DOMAIN lim.map
    THEN IF n <= lim.map[ReplaceSpaces(sec)] THEN "pass" ELSE "fail"
    ELSE "n/a"

\* lines 92-95: None and the empty mapping are both falsy
Status(sec, n, lim) ==
  IF ~lim.isNone /\ DOMAIN lim.map # {} /\ sec \in DOMAIN lim.map
    THEN IF n <= lim.map[sec] THEN "pass" ELSE "fail"
    ELSE "n/a"

\* the value stored under the page key (line 90)
PageCount(pages) == Len(pages)

\* lines 85-95: one iteration per section, in insertion order
RECURSIVE BuildResult(_, _, _)
BuildResult(res, sp, lim) ==
  IF sp = <<>> THEN res
  ELSE LET sec == Head(sp).key
           pages == Head(sp).val
           r1 == DictSet(res, PageKey(sec), IntVal(PageCount(pages)))
           r2 == DictSet(r1, StatusKey(sec), StrVal(Status(sec, PageCount(pages), lim)))
       IN  BuildResult(r2, Tail(sp), lim)

\* a result that starts from one "n/a" entry per limits key
ResultOf_SeededFromLimits(sp, lim) ==
  IF lim.isNone \/ DOMAIN lim.map = {}
    THEN BuildResult(<<>>, sp, lim)
    ELSE LET name == CHOOSE x \in DOMAIN lim.map : ~HasKey(sp, x) \/ DOMAIN lim.map \subseteq Keys(sp)
         IN  BuildResult(<<[key |-> StatusKey(name), val |-> StrVal("n/a")]>>, sp, lim)

\* lines 85-97: result = {}, then the loop
ResultOf(sp, lim) == BuildResult(<<>>, sp, lim)

\* the first section ever registered stays the current one
LastSection_First(starts) == starts[1].key

\* list(section_starts.keys())[-1]
LastSection(starts) == starts[Len(starts)].key

\* a heading seen again moves its section to the end of section_starts, so
\* that it becomes the current section again
StartsAfterLine_Reopen(starts, line, p) ==
  IF IsHeading(line) /\ SectionName(line) # <<>>
    THEN IF HasKey(starts, SectionName(line))
           THEN SelectSeq(starts, LAMBDA e : e.key # SectionName(line))
                  \o <<[key |-> SectionName(line), val |-> Get(starts, SectionName(line))]>>
           ELSE DictSet(starts, SectionName(line), p)
    ELSE starts

\* first-seen pages counted from 1
StartsAfterLine_OneBased(starts, line, p) ==
  IF IsHeading(line) /\ SectionName(line) # <<>> /\ ~HasKey(starts, SectionName(line))
    THEN DictSet(starts, SectionName(line), p + 1)
    ELSE starts

\* the effect of one line of page p on section_starts (lines 73-76)
StartsAfterLine(starts, line, p) ==
  IF IsHeading(line) /\ SectionName(line) # <<>> /\ ~HasKey(starts, SectionName(line))
    THEN DictSet(starts, SectionName(line), p)
    ELSE starts

\* section_pages[name].append(p): a defaultdict(list)
AppendPage(sp, name, p) ==
  DictSet(sp, name, Append(IF HasKey(sp, name) THEN Get(sp, name) ELSE <<>>, p))

\* a heading that registers nothing is treated like any other line
PagesAfterLine_FallThrough(sp, starts, line, p) ==
  IF IsHeading(line) /\ SectionName(line) # <<>> /\ ~HasKey(starts, SectionName(line))
    THEN AppendPage(sp, SectionName(line), p)
    ELSE IF starts # <<>>
           THEN AppendPage(sp, LastSection(starts), p)
           ELSE sp

\* lines before the first heading are collected under the empty name
PagesAfterLine_Preamble(sp, starts, line, p) ==
  IF IsHeading(line)
    THEN IF SectionName(line) # <<>> /\ ~HasKey(starts, SectionName(line))
           THEN AppendPage(sp, SectionName(line), p)
           ELSE sp
    ELSE AppendPage(sp, IF starts # <<>> THEN LastSection(starts) ELSE <<>>, p)

\* a body line attributes its page to every registered section
PagesAfterLine_EverySection(sp, starts, line, p) ==
  IF IsHeading(line)
    THEN IF SectionName(line) # <<>> /\ ~HasKey(starts, SectionName(line))
           THEN AppendPage(sp, SectionName(line), p)
           ELSE sp
    ELSE [j \in 1..Len(sp) |-> [key |-> sp[j].key, val |-> Append(sp[j].val, p)]]

\* the effect of one line of page p on section_pages (lines 73-80)
PagesAfterLine(sp, starts, line, p) ==
  IF IsHeading(line)
    THEN IF SectionName(line) # <<>> /\ ~HasKey(starts, SectionName(line))
           THEN AppendPage(sp, SectionName(line), p)
           ELSE sp
    ELSE IF starts # <<>>
           THEN AppendPage(sp, LastSection(starts), p)
           ELSE sp

\* a section_starts that lives on from one scan to the next
StartSections_Kept(prev) == prev

\* line 64: section_starts = {}, whatever an earlier scan left
StartSections(prev) == <<>>

\* lines 63-65: fitz.open may raise; nothing catches it.  The document is
\* bound to the local doc and is not closed by the function
SecOpen ==
  /\ pc = "detect_sections"
  /\ IF file.fitz = "open"
       THEN /\ pc' = "raised"
            /\ UNCHANGED << scan_vars, handles >>
       ELSE /\ pc' = "next_page"
            /\ i' = 0
            /\ lines' = <<>>
            /\ section_starts' = StartSections(section_starts)
            /\ section_pages' = <<>>
            /\ sec_result' = <<>>
            /\ handles' = handles \cup {"fitz"}
  /\ UNCHANGED << file, max_page_limits, report, result, history >>
  /\ UNCHANGED << ui_vars, gen_vars >>

\* lines 67-69: the next page of enumerate(doc), its text split into lines;
\* loading a page may raise; nothing catches it
NextPage ==
  /\ pc = "next_page"
  /\ IF file.fitz = "load"
       THEN /\ pc' = "raised"
            /\ UNCHANGED lines
       ELSE IF i < Len(file.pages)
              THEN /\ lines' = Split(file.pages[i + 1])
                   /\ pc' = "scan_line"
              ELSE /\ pc' = "finish"
                   /\ UNCHANGED lines
  /\ UNCHANGED << file, max_page_limits, report, result, i,
                  section_starts, section_pages, sec_result, handles, history >>
  /\ UNCHANGED << ui_vars, gen_vars >>

\* lines 71-80: one line of page i
ScanLine ==
  /\ pc = "scan_line"
  /\ lines # <<>>
  /\ section_starts' = StartsAfterLine(section_starts, Head(lines), i)
  /\ section_pages' = PagesAfterLine(section_pages, section_starts, Head(lines), i)
  /\ lines' = Tail(lines)
  /\ IF Tail(lines) = <<>>
       THEN i' = i + 1 /\ pc' = "next_page"
       ELSE i' = i /\ pc' = "scan_line"
  /\ UNCHANGED << file, max_page_limits, report, result, sec_result, handles, history >>
  /\ UNCHANGED << ui_vars, gen_vars >>

\* lines 82-97: sort and deduplicate the page lists, build the result.
\* No statement closes doc: at the return the document is closed only if
\* the interpreter finalizes the dropped local at once
Finish ==
  /\ pc = "finish"
  /\ section_pages' = SortAll(section_pages)
  /\ sec_result' = ResultOf(SortAll(section_pages), max_page_limits)
  /\ pc' = "sec_return"
  /\ \E finalized \in BOOLEAN :
       handles' = IF finalized THEN handles \ {"fitz"} ELSE handles
  /\ UNCHANGED << file, max_page_limits, report, result, i, lines,
                  section_starts, history >>
  /\ UNCHANGED << ui_vars, gen_vars >>

\* line 113 of analyze_pdf
MergeContent ==
  /\ pc = "sec_return"
  /\ report' = [report EXCEPT !.content = DictUpdate(@, sec_result)]
  /\ pc' = "return"
  /\ UNCHANGED << file, max_page_limits, result, scan_vars, handles, history >>
  /\ UNCHANGED << ui_vars, gen_vars >>

\* lines 109 and 114: the report goes to the caller
Return ==
  /\ pc = "return"
  /\ history' = Append(history, [limits |-> max_page_limits,
                                 outcome |-> "returned", report |-> report])
  /\ pc' = "idle"
  /\ UNCHANGED << file, max_page_limits, report, result, scan_vars, handles >>
  /\ UNCHANGED << ui_vars, gen_vars >>

\* an exception of detect_sections_dynamic leaves analyze_pdf: no report
Raise ==
  /\ pc = "raised"
  /\ history' = Append(history, [limits |-> max_page_limits,
                                 outcome |-> "raised", report |-> EmptyReport])
  /\ pc' = "idle"
  /\ UNCHANGED << file, max_page_limits, report, result, scan_vars, handles >>
  /\ UNCHANGED << ui_vars, gen_vars >>

Next ==
  \/ Call
  \/ Validate
  \/ FmtOpen
  \/ FmtChars
  \/ FmtMargin
  \/ FmtExcept
  \/ FmtReturn
  \/ SecOpen
  \/ NextPage
  \/ ScanLine
  \/ Finish
  \/ MergeContent
  \/ Return
  \/ Raise

Spec == Init /\ [][Next]_vars

\* ---------------------------------------------------- longer sessions
\* A few files, each analysed up to MaxSessionCalls times in a row
SessionFiles ==
  { File("raises", DefaultTypo, "ok", DefaultDoc),
    File("ok", DefaultTypo, "ok", DefaultDoc),
    File("ok", DefaultTypo, "ok", ExampleDoc),
    File("ok", DefaultTypo, "ok",
         << SKILLS_COLON \o NL \o Body \o NL, Body \o NL \o SKILLS_PAGES \o NL >>),
    File("ok", Typo("bbox", <<Char(Arial, 1100)>>, 612, 792, InchBox), "ok",
         << SUMMARY \o NL, SKILLS_COLON \o NL \o Body \o NL >>),
    File("ok", DefaultTypo, "load", DefaultDoc) }

SessionInit ==
  /\ file \in SessionFiles
  /\ pc = "idle"
  /\ max_page_limits = None
  /\ report = EmptyReport
  /\ result = <<>>
  /\ i = 0
  /\ lines = <<>>
  /\ section_starts = <<>>
  /\ section_pages = <<>>
  /\ sec_result = <<>>
  /\ handles = {}
  /\ history = <<>>
  /\ UiIdle
  /\ GenIdle

SessionCall == CallWithin(MaxSessionCalls)

SessionNext ==
  \/ SessionCall
  \/ Validate
  \/ FmtOpen
  \/ FmtChars
  \/ FmtMargin
  \/ FmtExcept
  \/ FmtReturn
  \/ SecOpen
  \/ NextPage
  \/ ScanLine
  \/ Finish
  \/ MergeContent
  \/ Return
  \/ Raise

SessionSpec == SessionInit /\ [][SessionNext]_vars

\* ------------------------------------------- the presets of the web page
\* app.py, lines 105-118: the limits the page passes for a preset, as
\* json.loads gives them; a user may also type a mapping of their own
experience == <<"e","x","p","e","r","i","e","n","c","e">>
education == <<"e","d","u","c","a","t","i","o","n">>
executive_summary ==
  <<"e","x","e","c","u","t","i","v","e","_","s","u","m","m","a","r","y">>
executive_sp_summary ==
  <<"e","x","e","c","u","t","i","v","e"," ","s","u","m","m","a","r","y">>
methodology == <<"m","e","t","h","o","d","o","l","o","g","y">>
results == <<"r","e","s","u","l","t","s">>
appendix == <<"a","p","p","e","n","d","i","x">>

ResumeTemplate ==
  Limits((skills :> 2) @@ (experience :> 3) @@ (education :> 1) @@ (summary :> 1))
ReportTemplate ==
  Limits((executive_summary :> 2) @@ (methodology :> 3) @@ (results :> 5) @@ (appendix :> 10))

PresetLimits ==
  { None, ResumeTemplate, ReportTemplate, Limits(executive_sp_summary :> 2) }

\* reports that open with "EXECUTIVE SUMMARY": two pages of it, and three
\* pages of it followed by "SUMMARY"
ReportDoc2 == << EXECUTIVE_SUMMARY \o NL \o Body \o NL, Body \o NL >>
ReportDoc3 ==
  << EXECUTIVE_SUMMARY \o NL \o Body \o NL, Body \o NL, Body \o NL, SUMMARY \o NL >>

PresetFiles ==
  { File("ok", DefaultTypo, "ok", ReportDoc2),
    File("ok", DefaultTypo, "ok", ReportDoc3),
    File("ok", DefaultTypo, "ok", << Body \o NL \o SKILLS_PAGES \o NL, SKILLS_COLON \o NL >>),
    File("ok", Typo("page", <<>>, 612, 792, PageBox), "open", ReportDoc2),
    File("raises", DefaultTypo, "ok", ReportDoc3) }

PresetInit ==
  /\ file \in PresetFiles
  /\ pc = "idle"
  /\ max_page_limits = None
  /\ report = EmptyReport
  /\ result = <<>>
  /\ i = 0
  /\ lines = <<>>
  /\ section_starts = <<>>
  /\ section_pages = <<>>
  /\ sec_result = <<>>
  /\ handles = {}
  /\ history = <<>>
  /\ UiIdle
  /\ GenIdle

PresetCall == CallFrom(MaxCalls, PresetLimits) /\ UNCHANGED ui_vars

PresetNext ==
  \/ PresetCall
  \/ Validate
  \/ FmtOpen
  \/ FmtChars
  \/ FmtMargin
  \/ FmtExcept
  \/ FmtReturn
  \/ SecOpen
  \/ NextPage
  \/ ScanLine
  \/ Finish
  \/ MergeContent
  \/ Return
  \/ Raise

PresetSpec == PresetInit /\ [][PresetNext]_vars

\* ------------------------------------- the Analyze button of the web page
\* app.py, lines 205-420.  Each click writes the upload to a new temporary
\* file, runs analyze_pdf on it and shows the report or an error
MaxClicks == 2

UiFiles == SessionFiles \cup { File("ok", DefaultTypo, "open", DefaultDoc) }

UiInit ==
  /\ file \in UiFiles
  /\ pc = "idle"
  /\ max_page_limits = None
  /\ report = EmptyReport
  /\ result = <<>>
  /\ i = 0
  /\ lines = <<>>
  /\ section_starts = <<>>
  /\ section_pages = <<>>
  /\ sec_result = <<>>
  /\ handles = {}
  /\ history = <<>>
  /\ ui_pc = "idle"
  /\ tmp_files = {}
  /\ temp_pdf_path = 0
  /\ os_locks_open_files \in BOOLEAN
  /\ shown = "none"
  /\ GenIdle

\* os.unlink(path) raises when the file does not exist, and on a platform
\* that locks open files when a handle on the file is still open
UnlinkRaises(files, path, open, locks) ==
  path \notin files \/ (locks /\ open # {})

\* lines 229-232 and 413-416: try: os.unlink(temp_pdf_path) except: pass
Unlink(files, path, open, locks) ==
  IF UnlinkRaises(files, path, open, locks) THEN files ELSE files \ {path}

\* lines 205-224: the temporary file is written and closed, analyze_pdf is called
UiClick ==
  /\ ui_pc = "idle"
  /\ CallFrom(MaxClicks, PresetLimits)
  /\ temp_pdf_path' = Len(history) + 1
  /\ tmp_files' = tmp_files \cup {Len(history) + 1}
  /\ ui_pc' = "analyzing"
  /\ shown' = "none"
  /\ UNCHANGED os_locks_open_files

\* lines 224-232: analyze_pdf has returned, the file is unlinked; or it has
\* raised and the handler of line 411 takes over
UiAnalyzed ==
  /\ ui_pc = "analyzing"
  /\ pc = "idle"
  /\ IF history[Len(history)].outcome = "returned"
       THEN /\ tmp_files' = Unlink(tmp_files, temp_pdf_path, handles, os_locks_open_files)
            /\ ui_pc' = "render"
       ELSE /\ ui_pc' = "except"
            /\ UNCHANGED tmp_files
  /\ UNCHANGED << temp_pdf_path, os_locks_open_files, shown, pdf_vars, gen_vars >>

\* lines 234-409: the report is rendered; a widget call may raise
UiRender ==
  /\ ui_pc = "render"
  /\ \E raises \in BOOLEAN :
       IF raises
         THEN ui_pc' = "except" /\ UNCHANGED shown
         ELSE ui_pc' = "finally" /\ shown' = "results"
  /\ UNCHANGED << tmp_files, temp_pdf_path, os_locks_open_files, pdf_vars, gen_vars >>

\* lines 411-416: the error is shown and the file is unlinked; the local e
\* keeps the frames of the failed call, and so its document, alive
UiExcept ==
  /\ ui_pc = "except"
  /\ shown' = "error"
  /\ tmp_files' = Unlink(tmp_files, temp_pdf_path, handles, os_locks_open_files)
  /\ ui_pc' = "finally"
  /\ UNCHANGED << temp_pdf_path, os_locks_open_files, pdf_vars, gen_vars >>

\* lines 418-420
UiFinally ==
  /\ ui_pc = "finally"
  /\ ui_pc' = "idle"
  /\ UNCHANGED << tmp_files, temp_pdf_path, os_locks_open_files, shown, pdf_vars, gen_vars >>

UiNext ==
  \/ UiClick
  \/ Validate
  \/ FmtOpen
  \/ FmtChars
  \/ FmtMargin
  \/ FmtExcept
  \/ FmtReturn
  \/ SecOpen
  \/ NextPage
  \/ ScanLine
  \/ Finish
  \/ MergeContent
  \/ Return
  \/ Raise
  \/ UiAnalyzed
  \/ UiRender
  \/ UiExcept
  \/ UiFinally

\* the script runs to its end: no step of the handler waits for anything
UiSpec == UiInit /\ [][UiNext]_vars /\ WF_vars(UiNext)

\* -------------------------------- SocialMediaGenerator.generate_posts
\* Q2/social_post_generator.py.  Platform names are texts; the language
\* model behind LLMService is external: for which platforms its call raises
\* is an input of the session
MaxGenCalls == 2

twitter == <<"t","w","i","t","t","e","r">>
linkedin == <<"l","i","n","k","e","d","i","n">>
instagram == <<"i","n","s","t","a","g","r","a","m">>
facebook == <<"f","a","c","e","b","o","o","k">>
tiktok == <<"t","i","k","t","o","k">>
Twitter_cap == <<"T","w","i","t","t","e","r">>
myspace == <<"m","y","s","p","a","c","e">>

\* PlatformManager.get_all_platforms(): the keys of self.platforms (lines 51-92, 97-98)
get_all_platforms == << twitter, linkedin, instagram, facebook, tiktok >>

\* PlatformManager.get_platform_config(name) is not None (lines 94-95)
HasConfig(name) == Lower(name) \in Range(get_all_platforms)

\* PromptEngine.generate_prompt raises ValueError (lines 213-215)
PromptRaises(name) == ~HasConfig(name)

\* ContentMetricsAnalyzer.analyze_content reads config.max_length (lines 457, 465)
MetricsRaises(name) == ~HasConfig(name)

\* target_platforms: None, or a list of names
NoTargets == [isNone |-> TRUE, list |-> <<>>]
Targets(l) == [isNone |-> FALSE, list |-> l]

TargetSamples ==
  { NoTargets,
    Targets(<<>>),
    Targets(<< myspace >>),
    Targets(<< twitter, myspace, Twitter_cap >>),
    Targets(<< linkedin, twitter, linkedin >>) }

LlmFaults == { {}, {linkedin}, {twitter, Twitter_cap} }

GenInit ==
  /\ file = File("raises", DefaultTypo, "open", <<>>)
  /\ pc = "idle"
  /\ max_page_limits = None
  /\ report = EmptyReport
  /\ result = <<>>
  /\ i = 0
  /\ lines = <<>>
  /\ section_starts = <<>>
  /\ section_pages = <<>>
  /\ sec_result = <<>>
  /\ handles = {}
  /\ history = <<>>
  /\ UiIdle
  /\ gen_pc = "idle"
  /\ llm_raises_for \in LlmFaults
  /\ target_platforms = NoTargets
  /\ remaining = <<>>
  /\ platform = <<>>
  /\ generated_posts = <<>>
  /\ printed = <<>>
  /\ returned = <<>>
  /\ generation_history = <<>>

\* lines 552-561: the default of target_platforms, the analysis of the blog
\* text (no text makes it raise), generated_posts = {}
GenCall ==
  /\ gen_pc = "idle"
  /\ Len(generation_history) < MaxGenCalls
  /\ \E t \in TargetSamples :
       /\ target_platforms' = t
       /\ remaining' = IF t.isNone THEN get_all_platforms ELSE t.list
  /\ generated_posts' = <<>>
  /\ gen_pc' = "loop"
  /\ UNCHANGED << llm_raises_for, platform, printed, returned, generation_history >>
  /\ UNCHANGED << pdf_vars, ui_vars >>

\* line 563: the next platform of the list, or the end of the loop
GenLoop ==
  /\ gen_pc = "loop"
  /\ IF remaining = <<>>
       THEN gen_pc' = "save" /\ UNCHANGED << remaining, platform >>
       ELSE /\ platform' = Head(remaining)
            /\ remaining' = Tail(remaining)
            /\ gen_pc' = "prompt"
  /\ UNCHANGED << llm_raises_for, target_platforms, generated_posts, printed,
                  returned, generation_history >>
  /\ UNCHANGED << pdf_vars, ui_vars >>

\* line 566
GenPrompt ==
  /\ gen_pc = "prompt"
  /\ gen_pc' = IF PromptRaises(platform) THEN "except" ELSE "content"
  /\ UNCHANGED << llm_raises_for, target_platforms, remaining, platform,
                  generated_posts, printed, returned, generation_history >>
  /\ UNCHANGED << pdf_vars, ui_vars >>

\* line 569: await self.llm_service.generate_content(prompt)
GenContent ==
  /\ gen_pc = "content"
  /\ gen_pc' = IF platform \in llm_raises_for THEN "except" ELSE "metrics"
  /\ UNCHANGED << llm_raises_for, target_platforms, remaining, platform,
                  generated_posts, printed, returned, generation_history >>
  /\ UNCHANGED << pdf_vars, ui_vars >>

\* line 572
GenMetrics ==
  /\ gen_pc = "metrics"
  /\ gen_pc' = IF MetricsRaises(platform) THEN "except" ELSE "store"
  /\ UNCHANGED << llm_raises_for, target_platforms, remaining, platform,
                  generated_posts, printed, returned, generation_history >>
  /\ UNCHANGED << pdf_vars, ui_vars >>

\* lines 575-582: generated_posts[platform] = post, under the name as requested
GenStore ==
  /\ gen_pc = "store"
  /\ generated_posts' = DictSet(generated_posts, platform, [platform |-> platform])
  /\ gen_pc' = "loop"
  /\ UNCHANGED << llm_raises_for, target_platforms, remaining, platform,
                  printed, returned, generation_history >>
  /\ UNCHANGED << pdf_vars, ui_vars >>

\* a handler that leaves the loop
AfterFailure_Break(rest) == <<>>

\* line 586: continue
AfterFailure(rest) == rest

\* lines 584-586: the failure is printed and the loop goes on
GenExcept ==
  /\ gen_pc = "except"
  /\ printed' = Append(printed, platform)
  /\ remaining' = AfterFailure(remaining)
  /\ gen_pc' = "loop"
  /\ UNCHANGED << llm_raises_for, target_platforms, platform, generated_posts,
                  returned, generation_history >>
  /\ UNCHANGED << pdf_vars, ui_vars >>

\* lines 588-595: one entry of the history, and the posts go to the caller
GenSave ==
  /\ gen_pc = "save"
  /\ generation_history' =
       Append(generation_history, [generated_posts |-> generated_posts])
  /\ returned' = generated_posts
  /\ gen_pc' = "idle"
  /\ UNCHANGED << llm_raises_for, target_platforms, remaining, platform,
                  generated_posts, printed >>
  /\ UNCHANGED << pdf_vars, ui_vars >>

GenNext ==
  \/ GenCall
  \/ GenLoop
  \/ GenPrompt
  \/ GenContent
  \/ GenMetrics
  \/ GenStore
  \/ GenExcept
  \/ GenSave

GenSpec == GenInit /\ [][GenNext]_vars

\* ----------------------------------------------------------------- claims
\* vocabulary of the properties, independent of the operators above
Accepted == file.reader = "ok"
Rejected == file.reader = "raises"
Returning == pc = "return"
NonEmptyLimits(l) == ~l.isNone /\ DOMAIN l.map # {}

key_summary_pages == <<"s","u","m","m","a","r","y","_","p","a","g","e","s">>
key_skills_pages == <<"s","k","i","l","l","s","_","p","a","g","e","s">>

RejectReport ==
  [format |-> <<[key |-> "file_type", val |-> "fail"]>>, content |-> <<>>]

\* C1: when the validator rejects the file, the report that analyze_pdf
\* returns is exactly {"format": {"file_type": "fail"}, "content": {}},
\* whatever the limits
C1_RejectedReport ==
  /\ (Returning /\ Rejected) => report = RejectReport
  /\ Rejected => \A j \in 1..Len(history) :
                   history[j].outcome = "returned" /\ history[j].report = RejectReport

C1_Witness ==
  /\ Returning /\ Rejected /\ NonEmptyLimits(max_page_limits)
  /\ Len(report.format) = 1 /\ report.content = <<>>

\* C2: on a file the validator accepts, analyze_pdf never raises
C2_NeverRaises ==
  /\ Accepted => pc # "raised"
  /\ Accepted => \A j \in 1..Len(history) : history[j].outcome = "returned"

AllFail ==
  << [key |-> "font_size", val |-> "fail"],
     [key |-> "font_family", val |-> "fail"],
     [key |-> "margin", val |-> "fail"] >>

\* C3: when a step of check_formatting raises, the function returns with
\* all three fields "fail", whatever was computed before, and the exception
\* does not leave check_formatting (analyze_pdf goes on to the section scan)
C3_AllOrNothing ==
  /\ (pc = "fmt_return" /\ file.typo.plumber # "ok") => result = AllFail
  /\ (pc \in {"detect_sections", "raised"} /\ file.typo.plumber # "ok") =>
       \A k \in {"font_size", "font_family", "margin"} :
         HasKey(report.format, k) /\ Get(report.format, k) = "fail"

C3_Witness ==
  /\ pc = "fmt_return"
  /\ file.typo.plumber = "bbox"
  /\ 1200 \in {file.typo.chars[j].size : j \in 1..Len(file.typo.chars)}
  /\ result = AllFail

\* the status the limits give a section of n pages
ExpectedStatus(sec, n, lim) ==
  IF ~lim.isNone /\ sec \in DOMAIN lim.map
    THEN IF n <= lim.map[sec] THEN "pass" ELSE "fail"
    ELSE "n/a"

\* C4: in the returned content, the status of every detected section S of
\* n pages is "pass" iff limits has S with n <= L, "fail" iff limits has S
\* with n > L, "n/a" iff limits is absent, empty or without S
C4_StatusRule ==
  (Returning /\ Accepted) =>
    \A j \in 1..Len(section_pages) :
      LET sec == section_pages[j].key
          n == Cardinality(Range(section_pages[j].val))
      IN  /\ HasKey(report.content, ReplaceSpaces(sec))
          /\ Get(report.content, ReplaceSpaces(sec)) =
               [isInt |-> FALSE, n |-> 0, s |-> ExpectedStatus(sec, n, max_page_limits)]

\* C5: in the returned content, the value under "<S>_pages" is the number
\* of distinct pages attributed to S, and every scan of the same document
\* gives the same value
C5_PageCount ==
  (Returning /\ Accepted) =>
    \A j \in 1..Len(section_pages) :
      LET k == ReplaceSpaces(section_pages[j].key) \o <<"_","p","a","g","e","s">>
          n == Cardinality(Range(section_pages[j].val))
      IN  /\ HasKey(report.content, k)
          /\ Get(report.content, k) = [isInt |-> TRUE, n |-> n, s |-> ""]
          /\ \A h \in 1..Len(history) :
               history[h].outcome = "returned" =>
                 /\ HasKey(history[h].report.content, k)
                 /\ Get(history[h].report.content, k) = Get(report.content, k)

EndsWithPages(k) ==
  Len(k) >= 6 /\ SubSeq(k, Len(k) - 5, Len(k)) = <<"_","p","a","g","e","s">>

\* C6: two calls on the same document with any two limits mappings return
\* contents with the same keys and equal values under every key ending in
\* "_pages"
C6_LimitsIndependence ==
  \A a, b \in 1..Len(history) :
    (history[a].outcome = "returned" /\ history[b].outcome = "returned") =>
      LET ca == history[a].report.content
          cb == history[b].report.content
      IN  /\ Keys(ca) = Keys(cb)
          /\ \A k \in Keys(ca) : EndsWithPages(k) => Get(ca, k) = Get(cb, k)

C7_Limits == Limits((summary :> 2) @@ (skills :> 1))
C7_Case ==
  Returning /\ Accepted /\ file.pages = ExampleDoc /\ max_page_limits = C7_Limits

\* C7 as stated: the example document yields summary_pages 3, summary
\* "fail", skills_pages 1, skills "pass"
C7_Original ==
  C7_Case =>
    report.content =
      << [key |-> key_summary_pages, val |-> [isInt |-> TRUE, n |-> 3, s |-> ""]],
         [key |-> summary, val |-> [isInt |-> FALSE, n |-> 0, s |-> "fail"]],
         [key |-> key_skills_pages, val |-> [isInt |-> TRUE, n |-> 1, s |-> ""]],
         [key |-> skills, val |-> [isInt |-> FALSE, n |-> 0, s |-> "pass"]] >>

\* C7 amended: the example document yields summary_pages 3, summary "fail",
\* skills_pages 2, skills "fail": the page of "SKILLS:" counts toward skills
\* as the page of "SUMMARY" counts toward summary
C7_Example ==
  C7_Case =>
    report.content =
      << [key |-> key_summary_pages, val |-> [isInt |-> TRUE, n |-> 3, s |-> ""]],
         [key |-> summary, val |-> [isInt |-> FALSE, n |-> 0, s |-> "fail"]],
         [key |-> key_skills_pages, val |-> [isInt |-> TRUE, n |-> 2, s |-> ""]],
         [key |-> skills, val |-> [isInt |-> FALSE, n |-> 0, s |-> "fail"]] >>

C7_Witness == C7_Case /\ Len(report.content) = 4

\* heading-like, in the words of the heuristics: the trimmed line starts
\* with an uppercase letter, goes on with letters, spaces or hyphens and ends
\* in a colon, or the line is entirely upper-case
HeadingLike(line) ==
  LET t == Strip(line) IN
    \/ /\ Len(t) >= 3
       /\ IsUpper(t[1])
       /\ t[Len(t)] = ":"
       /\ \A j \in 2..(Len(t) - 1) :
            IsUpper(t[j]) \/ IsLower(t[j]) \/ IsSpace(t[j]) \/ t[j] = "-"
    \/ IsUpperStr(t)

NoHeadingLine(f) ==
  \A p \in 1..Len(f.pages) :
    \A j \in 1..Len(Split(f.pages[p])) : ~HeadingLike(Split(f.pages[p])[j])

\* C8: a document whose pages are read and hold no heading-like line gives
\* an empty content, whatever the limits, and analyze_pdf returns normally
C8_NoHeadings ==
  ( /\ pc \in {"raised", "sec_return", "return", "idle"}
    /\ Accepted /\ file.fitz = "ok" /\ NoHeadingLine(file) ) =>
    /\ pc # "raised"
    /\ pc \in {"sec_return", "return"} => sec_result = <<>>
    /\ Returning => report.content = <<>>
    /\ \A j \in 1..Len(history) :
         history[j].outcome = "returned" /\ history[j].report.content = <<>>

C8_Witness ==
  /\ Returning /\ Accepted /\ file.fitz = "ok" /\ NoHeadingLine(file)
  /\ Len(file.pages) >= 2
  /\ \E p \in 1..Len(file.pages) : file.pages[p] = skills_colon \o NL \o Body \o NL
  /\ NonEmptyLimits(max_page_limits)
  /\ report.content = <<>>

\* the part of a limits mapping that names detected sections
OnDetected(lim, detected) ==
  [x \in (IF lim.isNone THEN {} ELSE DOMAIN lim.map) \cap detected |-> lim.map[x]]

\* C9: every key of the content comes from a detected section, and a limits
\* entry for a section that was not detected changes nothing: two calls whose
\* limits agree on the detected sections return the same content
C9_UnusedLimitIgnored ==
  /\ (Returning /\ Accepted) =>
       Keys(report.content) \subseteq
         UNION { {ReplaceSpaces(section_starts[j].key) \o <<"_","p","a","g","e","s">>,
                  ReplaceSpaces(section_starts[j].key)} : j \in 1..Len(section_starts) }
  /\ (pc = "idle" /\ Accepted) =>
       \A a, b \in 1..Len(history) :
         ( /\ history[a].outcome = "returned"
           /\ history[b].outcome = "returned"
           /\ OnDetected(history[a].limits, Keys(section_starts))
                = OnDetected(history[b].limits, Keys(section_starts)) )
         => history[a].report.content = history[b].report.content

C9_Witness ==
  /\ pc = "idle" /\ Accepted /\ Len(history) = 2
  /\ history[1].outcome = "returned" /\ history[2].outcome = "returned"
  /\ history[1].limits = Limits((summary :> 2) @@ (skills :> 1))
  /\ history[2].limits =
       Limits((summary :> 2) @@ (skills :> 1) @@ (ghost :> 1) @@ (skills_sp_pages :> 1))
  /\ Len(history[2].report.content) = 4
  /\ history[1].report.content = history[2].report.content

\* C10: when the validator accepts the file, the returned format has exactly
\* the keys file_type, font_size, font_family and margin, file_type is
\* "pass" and the other three are "pass" or "fail"
C10_FormatKeys ==
  (Returning /\ Accepted) =>
    /\ Len(report.format) = 4
    /\ Keys(report.format) = {"file_type", "font_size", "font_family", "margin"}
    /\ Get(report.format, "file_type") = "pass"
    /\ \A k \in {"font_size", "font_family", "margin"} :
         Get(report.format, k) \in {"pass", "fail"}

C10_Witness ==
  /\ Returning /\ Accepted
  /\ file.typo.plumber # "ok"
  /\ Len(report.format) = 4
  /\ Get(report.format, "file_type") = "pass"
  /\ Get(report.format, "margin") = "fail"

\* the typography check ran to its end without an exception
FmtDone == pc = "fmt_return" /\ file.typo.plumber = "ok"

\* C11: when the typography check completes without exception, font_size
\* is "pass" iff some character of page 1 has a size that rounds to 12.0
\* (between 11.95 and 12.05), however many other sizes there are
C11_FontSizePresence ==
  FmtDone =>
    ( Get(result, "font_size") = "pass"
      <=> \E j \in 1..Len(file.typo.chars) :
            file.typo.chars[j].size > 1195 /\ file.typo.chars[j].size < 1205 )

C11_Witness ==
  /\ FmtDone
  /\ Len(file.typo.chars) = 3
  /\ Cardinality({j \in 1..3 : file.typo.chars[j].size \in 1196..1204}) = 1
  /\ Get(result, "font_size") = "pass"

\* the five letters "Times" occur in the name, in this case
HasTimes(f) ==
  \E k \in 1..(Len(f) - 4) :
    f[k] = "T" /\ f[k+1] = "i" /\ f[k+2] = "m" /\ f[k+3] = "e" /\ f[k+4] = "s"

\* C12: when the typography check completes without exception, font_family
\* is "pass" iff some font name of page 1 contains "Times", case-sensitively;
\* a 12.0 character in "ABCDEF+TimesNewRomanPSMT" gives font_size and
\* font_family "pass", and a page whose only font is "times" gives "fail"
C12_FontFamilyTimes ==
  FmtDone =>
    /\ Get(result, "font_family") = "pass"
         <=> \E j \in 1..Len(file.typo.chars) : HasTimes(file.typo.chars[j].fontname)
    /\ (\E j \in 1..Len(file.typo.chars) :
          file.typo.chars[j] = [fontname |-> SubsetTimesPSMT, size |-> 1200])
         => Get(result, "font_size") = "pass" /\ Get(result, "font_family") = "pass"
    /\ {file.typo.chars[j].fontname : j \in 1..Len(file.typo.chars)} = {times_lower}
         => Get(result, "font_family") = "fail"

C12_Witness ==
  /\ FmtDone
  /\ file.typo.chars = <<[fontname |-> SubsetTimesPSMT, size |-> 1200]>>
  /\ Get(result, "font_size") = "pass"
  /\ Get(result, "font_family") = "pass"

\* left, bottom, right, top margins of the page
SideMargins(t) ==
  { t.bbox[1], t.bbox[2], t.width - t.bbox[3], t.height - t.bbox[4] }

\* C13: when the typography check completes without exception, margin is
\* "pass" iff each of the four margins is between 67 and 77 inclusive: 66 on
\* one side fails, 67 or 77 on all sides passes
C13_MarginTolerance ==
  FmtDone =>
    /\ Get(result, "margin") = "pass"
         <=> \A m \in SideMargins(file.typo) : m >= 67 /\ m <= 77
    /\ 66 \in SideMargins(file.typo) => Get(result, "margin") = "fail"
    /\ SideMargins(file.typo) \in {{67}, {77}} => Get(result, "margin") = "pass"

C13_Witness ==
  /\ FmtDone
  /\ SideMargins(file.typo) = {77}
  /\ Get(result, "margin") = "pass"

\* C14: a first page without characters raises nothing in check_formatting:
\* font_size and font_family are "fail", and margin follows the geometry
C14_EmptyPage ==
  (file.typo.plumber = "ok" /\ file.typo.chars = <<>>) =>
    /\ pc # "fmt_except"
    /\ pc = "fmt_margin" =>
         /\ Get(result, "font_size") = "fail"
         /\ Get(result, "font_family") = "fail"
    /\ pc = "fmt_return" =>
         /\ Get(result, "font_size") = "fail"
         /\ Get(result, "font_family") = "fail"
         /\ Get(result, "margin") = "pass"
              <=> \A m \in SideMargins(file.typo) : m >= 67 /\ m <= 77

C14_Witness ==
  /\ pc = "fmt_return"
  /\ file.typo.plumber = "ok" /\ file.typo.chars = <<>>
  /\ SideMargins(file.typo) = {72}
  /\ result = << [key |-> "font_size", val |-> "fail"],
                 [key |-> "font_family", val |-> "fail"],
                 [key |-> "margin", val |-> "pass"] >>

\* C15: in every call the validator runs first and once; the typography
\* check starts only from the validator's acceptance and the section scan
\* only after the typography check; on a rejected file neither starts, no
\* decoder is opened and the call returns without a second parse
C15_ValidatorGates ==
  [][ /\ (pc = "idle" /\ pc' # "idle") => pc' = "validate"
      /\ pc' = "validate" => pc = "idle"
      /\ pc = "validate" => pc' = (IF Accepted THEN "check_formatting" ELSE "return")
      /\ pc' = "check_formatting" => (pc = "validate" /\ Accepted)
      /\ pc' = "detect_sections" => (pc = "fmt_return" /\ Accepted)
      /\ Rejected => ( /\ pc' \in {"idle", "validate", "return"}
                       /\ result' = <<>> /\ sec_result' = <<>>
                       /\ section_starts' = <<>> /\ handles' = {} )
    ]_vars

C15_Witness ==
  /\ pc = "idle" /\ Rejected /\ Len(history) = 2
  /\ result = <<>> /\ section_starts = <<>> /\ handles = {}

\* C16: every handle a check opens is closed when that check ends, on the
\* normal and on the exceptional path: after the typography check no
\* pdfplumber handle is open, and when analyze_pdf returns or raises no
\* handle is open
C16_HandlesReleased ==
  /\ pc \in {"fmt_except", "fmt_return", "detect_sections"} => "pdfplumber" \notin handles
  /\ pc \in {"sec_return", "return", "raised", "idle"} => handles = {}

\* C17: calls are independent of each other: two calls of a session with
\* the same limits end the same way with equal reports, whatever calls ran
\* between them, and a running call leaves its limits mapping as it was given
C17_Stateless ==
  /\ [](\A a, b \in 1..Len(history) :
          history[a].limits = history[b].limits =>
            /\ history[a].outcome = history[b].outcome
            /\ history[a].report = history[b].report)
  /\ [][pc # "idle" => max_page_limits' = max_page_limits]_vars

C17_Witness ==
  /\ pc = "idle" /\ Len(history) = 3
  /\ history[1].limits = history[3].limits
  /\ history[2].limits # history[1].limits
  /\ NonEmptyLimits(history[1].limits)
  /\ history[3].outcome = "returned"
  /\ Len(history[3].report.content) >= 3
  /\ history[1].report = history[3].report
  /\ history[2].report # history[1].report

\* C18: the content lists the sections in discovery order, each as its
\* "_pages" entry immediately followed by its status entry
C18_DiscoveryOrder ==
  (Returning /\ Accepted) =>
    /\ Len(report.content) = 2 * Len(section_starts)
    /\ \A j \in 1..Len(section_starts) :
         LET k == ReplaceSpaces(section_starts[j].key) IN
           /\ report.content[2 * j - 1].key = k \o <<"_","p","a","g","e","s">>
           /\ report.content[2 * j].key = k

\* C19: after the scan the page list of every section is strictly
\* ascending, however many lines of one page were attributed to it
C19_PagesAscending ==
  (pc \in {"sec_return", "return"} /\ Accepted) =>
    \A j \in 1..Len(section_pages) :
      \A a, b \in 1..Len(section_pages[j].val) :
        a < b => section_pages[j].val[a] < section_pages[j].val[b]

C19_Witness ==
  /\ pc = "sec_return" /\ Accepted
  /\ Len(file.pages) = 2
  /\ file.pages[1] = SKILLS_COLON \o NL \o Body \o NL
  /\ section_pages = <<[key |-> skills, val |-> <<0, 1>>]>>

\* C20: with k detected sections the content has exactly 2k entries: for
\* each section an integer under "<name>_pages" and a status "pass", "fail"
\* or "n/a" under "<name>"; no section's entry is overwritten by another's
C20_TwoEntriesPerSection ==
  (Returning /\ Accepted) =>
    /\ Len(report.content) = 2 * Len(section_pages)
    /\ \A j \in 1..Len(section_pages) :
         LET k == ReplaceSpaces(section_pages[j].key) IN
           /\ HasKey(report.content, k \o <<"_","p","a","g","e","s">>)
           /\ Get(report.content, k \o <<"_","p","a","g","e","s">>).isInt
           /\ HasKey(report.content, k)
           /\ ~Get(report.content, k).isInt
           /\ Get(report.content, k).s \in {"pass", "fail", "n/a"}

\* a step of the scan that reads one line of the current page
ReadsLine == pc = "scan_line" /\ lines # <<>>

\* no heading-like line on the pages 0..p of the document
BeforeFirstHeading(p) ==
  \A q \in 1..(p + 1) :
    \A j \in 1..Len(Split(file.pages[q])) : ~HeadingLike(Split(file.pages[q])[j])

\* C21: a line that is not heading-like attributes its page to exactly one
\* section, the last one in registration order, when a section is
\* registered, and to none otherwise; a page with no heading on it or
\* before it is in no section's list
C21_BodyLineAttribution ==
  /\ [][ (ReadsLine /\ ~HeadingLike(Head(lines))) =>
           /\ section_starts' = section_starts
           /\ IF section_starts = <<>>
                THEN section_pages' = section_pages
                ELSE /\ Len(section_pages') = Len(section_pages)
                     /\ \A j \in 1..Len(section_pages) :
                          /\ section_pages'[j].key = section_pages[j].key
                          /\ section_pages'[j].val =
                               IF section_pages[j].key = section_starts[Len(section_starts)].key
                                 THEN Append(section_pages[j].val, i)
                                 ELSE section_pages[j].val
       ]_vars
  /\ [](pc = "sec_return" =>
          \A p \in 0..(Len(file.pages) - 1) :
            BeforeFirstHeading(p) =>
              \A j \in 1..Len(section_pages) : p \notin Range(section_pages[j].val))

C21_Witness ==
  /\ pc = "sec_return" /\ file.pages = ThreeSectionDoc
  /\ Len(section_pages) = 3
  /\ section_pages[1] = [key |-> summary, val |-> <<1, 2>>]
  /\ section_pages[2] = [key |-> skills, val |-> <<2, 3>>]

\* C22: a heading seen again does not make its section current again: every
\* page after the first page of the last registered section, whatever
\* headings of earlier sections it repeats, is attributed to the last
\* registered section when it has a body line, and to no other section
C22_RepeatedHeading ==
  (pc = "sec_return" /\ section_starts # <<>>) =>
    LET n == Len(section_starts)
        last == section_starts[n].key
        first == section_starts[n].val
    IN  \A p \in (first + 1)..(Len(file.pages) - 1) :
          /\ (\E j \in 1..Len(Split(file.pages[p + 1])) :
                ~HeadingLike(Split(file.pages[p + 1])[j]))
               => \E j \in 1..Len(section_pages) :
                    section_pages[j].key = last /\ p \in Range(section_pages[j].val)
          /\ \A j \in 1..Len(section_pages) :
               section_pages[j].key # last => p \notin Range(section_pages[j].val)

C22_Witness ==
  /\ pc = "sec_return" /\ file.pages = RepeatDoc
  /\ section_starts = << [key |-> summary, val |-> 0], [key |-> skills, val |-> 1] >>
  /\ section_pages = << [key |-> summary, val |-> <<0>>], [key |-> skills, val |-> <<1, 2, 3>>] >>

\* C23: a heading-like line with a new, non-empty normalized name registers
\* a section whose first-seen page is the current page and attributes the
\* current page to it; a heading-like line with an empty or a known name
\* changes neither the registered sections nor any page list
C23_HeadingLineEffect ==
  [][ (ReadsLine /\ HeadingLike(Head(lines))) =>
        LET name == SectionName(Head(lines)) IN
          IF name # <<>> /\ name \notin Keys(section_starts)
            THEN /\ section_starts' = Append(section_starts, [key |-> name, val |-> i])
                 /\ section_pages' = Append(section_pages, [key |-> name, val |-> <<i>>])
            ELSE /\ section_starts' = section_starts
                 /\ section_pages' = section_pages
    ]_vars

C23_Witness ==
  /\ pc = "sec_return" /\ file.pages = AccentDoc
  /\ section_starts = << [key |-> summary, val |-> 1] >>
  /\ section_pages = << [key |-> summary, val |-> <<1>>] >>

\* C24: every registered section name is non-empty, consists of the letters
\* a-z and spaces only, neither starts nor ends with a space, and has no two
\* adjacent spaces, also for a heading such as "Work - History:"
C24_NamesNormalized ==
  \A e \in Range(section_starts) :
    LET name == e.key IN
      /\ name # <<>>
      /\ \A j \in 1..Len(name) : name[j] = " " \/ name[j] \in Range(LowerLetters)
      /\ name[1] # " " /\ name[Len(name)] # " "
      /\ \A j \in 1..(Len(name) - 1) : ~(name[j] = " " /\ name[j + 1] = " ")

\* the pages of the document that no heading-like line precedes are in no list
NoSectionBeforeFirstHeading ==
  \A p \in 0..(Len(file.pages) - 1) :
    BeforeFirstHeading(p) => \A e \in Range(section_pages) : p \notin Range(e.val)

\* C25 as stated: in the result of a scan no page index is in the page lists
\* of two sections, and a page before the first heading is in none
C25_Original ==
  pc = "sec_return" =>
    /\ \A j, k \in 1..Len(section_pages) :
         j # k => Range(section_pages[j].val) \cap Range(section_pages[k].val) = {}
    /\ NoSectionBeforeFirstHeading

\* C25 amended: in the result of a scan a page index is in the page lists of
\* two sections only when it is the first-seen page of the later one (the
\* later heading stands on a page the earlier section had reached), and a
\* page before the first heading is in none
C25_SharedOnlyAtHeading ==
  pc = "sec_return" =>
    /\ \A j, k \in 1..Len(section_pages) :
         j < k =>
           \A p \in Range(section_pages[j].val) \cap Range(section_pages[k].val) :
             [key |-> section_pages[k].key, val |-> p] \in Range(section_starts)
    /\ NoSectionBeforeFirstHeading

C25_Witness ==
  /\ pc = "sec_return" /\ file.pages = ThreeSectionDoc
  /\ Range(section_pages[1].val) \cap Range(section_pages[2].val) = {2}
  /\ [key |-> skills, val |-> 2] \in Range(section_starts)
  /\ \A e \in Range(section_pages) : 0 \notin Range(e.val)

RECURSIVE SumOfCounts(_)
SumOfCounts(sp) == IF sp = <<>> THEN 0 ELSE Len(Head(sp).val) + SumOfCounts(Tail(sp))

\* while the scan reads lines, the list of every section but the last stays as it is
C26_EarlierFrozen ==
  pc = "scan_line" =>
    \A j \in 1..(Len(section_pages) - 1) :
      Len(section_pages') >= j /\ section_pages'[j] = section_pages[j]

\* the pages of a section lie between its first-seen page and the next section's
C26_Span ==
  /\ Len(section_starts) = Len(section_pages)
  /\ \A k \in 1..(Len(section_pages) - 1) :
       \A p \in Range(section_pages[k].val) :
         section_starts[k].val <= p /\ p <= section_starts[k + 1].val

C26_SumBound ==
  SumOfCounts(section_pages) <= Len(file.pages) + Len(section_pages) - 1

\* C26 as stated: once a later section is registered the list of an earlier
\* one never grows; the pages of S_k lie between the first-seen pages of S_k
\* and S_k+1 inclusive; the page counts sum to at most pages + sections - 1
C26_Original ==
  /\ [][C26_EarlierFrozen]_vars
  /\ [](pc = "sec_return" => (C26_Span /\ C26_SumBound))

\* C26 amended: the same, the bound on the sum being claimed for a document
\* of at least one page (no page and no section give 0, not -1)
C26_EarlierSectionsFrozen ==
  /\ [][C26_EarlierFrozen]_vars
  /\ [](pc = "sec_return" =>
          (C26_Span /\ (Len(file.pages) >= 1 => C26_SumBound)))

C26_Witness ==
  /\ pc = "sec_return" /\ file.pages = ThreeSectionDoc
  /\ SumOfCounts(section_pages) = 5
  /\ Len(section_pages) = 3 /\ Len(file.pages) = 5

work__history == <<"w","o","r","k"," "," ","h","i","s","t","o","r","y">>

\* C27: the registered sections and the sections with a page list are the
\* same, in the same order; every page list is non-empty and its smallest
\* page index is the section's first-seen page
C27_FirstPageIsSmallest ==
  /\ Len(section_starts) = Len(section_pages)
  /\ \A j \in 1..Len(section_pages) :
       /\ section_starts[j].key = section_pages[j].key
       /\ section_pages[j].val # <<>>
       /\ section_starts[j].val \in Range(section_pages[j].val)
       /\ \A p \in Range(section_pages[j].val) : section_starts[j].val <= p

C27_Witness ==
  /\ pc = "sec_return" /\ file.pages = ThreeSectionDoc
  /\ section_starts = << [key |-> summary, val |-> 1], [key |-> skills, val |-> 2],
                         [key |-> work__history, val |-> 4] >>
  /\ Get(section_pages, work__history) = <<4>>

key_executive_summary ==
  <<"e","x","e","c","u","t","i","v","e","_","s","u","m","m","a","r","y">>
name_executive_summary ==
  <<"e","x","e","c","u","t","i","v","e"," ","s","u","m","m","a","r","y">>

\* C28: a section gets "pass" or "fail" only when the limits hold its name
\* exactly as normalized, with spaces; under limits whose key is written with
\* underscores, as "executive_summary" in the Report Template preset, the
\* section "executive summary" is reported under "executive_summary" as
\* "n/a", whatever its page count
C28_UnderscoreKeyNeverMatches ==
  (Returning /\ Accepted) =>
    \A e \in Range(section_pages) :
      LET k == ReplaceSpaces(e.key)
          named == ~max_page_limits.isNone /\ e.key \in DOMAIN max_page_limits.map
      IN  /\ HasKey(report.content, k)
          /\ (~Get(report.content, k).isInt /\ Get(report.content, k).s \in {"pass", "fail"})
               => named
          /\ (e.key = name_executive_summary /\ ~named) =>
               /\ k = key_executive_summary
               /\ Get(report.content, k) = [isInt |-> FALSE, n |-> 0, s |-> "n/a"]

C28_Witness ==
  /\ Returning /\ Accepted
  /\ key_executive_summary \in DOMAIN max_page_limits.map
  /\ max_page_limits.map[key_executive_summary] = 2
  /\ HasKey(section_pages, name_executive_summary)
  /\ Get(section_pages, name_executive_summary) = <<0, 1, 2>>
  /\ HasKey(report.content, key_executive_summary)
  /\ Get(report.content, key_executive_summary) = [isInt |-> FALSE, n |-> 0, s |-> "n/a"]

\* C29: once the temporary copy is written and the analysis started, the
\* file is deleted on every path: when the handler of the click is over no
\* temporary file is left, whether analyze_pdf returned, raised, or the
\* rendering raised; and a failing delete does not change what the page
\* shows (the report, or the error of the analysis or of the rendering)
C29_TempFileDeleted ==
  /\ ui_pc = "idle" => tmp_files = {}
  /\ (ui_pc = "idle" /\ history # <<>>) =>
       /\ shown \in {"results", "error"}
       /\ history[Len(history)].outcome = "raised" => shown = "error"

\* the platforms the call was asked for, and those whose three steps succeed
Requested ==
  IF target_platforms.isNone
    THEN << <<"t","w","i","t","t","e","r">>, <<"l","i","n","k","e","d","i","n">>,
            <<"i","n","s","t","a","g","r","a","m">>, <<"f","a","c","e","b","o","o","k">>,
            <<"t","i","k","t","o","k">> >>
    ELSE target_platforms.list

KnownPlatform(name) ==
  Lower(name) \in { <<"t","w","i","t","t","e","r">>, <<"l","i","n","k","e","d","i","n">>,
                    <<"i","n","s","t","a","g","r","a","m">>, <<"f","a","c","e","b","o","o","k">>,
                    <<"t","i","k","t","o","k">> }

Succeeds(name) == KnownPlatform(name) /\ name \notin llm_raises_for

\* C30: a platform whose prompt, content or metrics step raises is skipped
\* and the platforms after it are still processed, in order; the returned
\* mapping has exactly the requested platforms that succeeded as keys; every
\* call adds exactly one entry to generation_history, also when every
\* platform failed
C30_FailureIsolation ==
  /\ [][ /\ gen_pc = "except" => (remaining' = remaining /\ gen_pc' = "loop")
         /\ (gen_pc = "loop" /\ remaining # <<>>) =>
              (platform' = Head(remaining) /\ remaining' = Tail(remaining))
         /\ Len(generation_history') =
              Len(generation_history) + (IF gen_pc = "save" THEN 1 ELSE 0)
         /\ gen_pc = "save" =>
              /\ returned' = generated_posts
              /\ generation_history'[Len(generation_history')].generated_posts = generated_posts
     ]_vars
  /\ [](gen_pc = "save" =>
          /\ remaining = <<>>
          /\ Keys(generated_posts) = {p \in Range(Requested) : Succeeds(p)}
          /\ \A a, b \in 1..Len(generated_posts) :
               a < b => \E x, y \in 1..Len(Requested) :
                          /\ x < y
                          /\ Requested[x] = generated_posts[a].key
                          /\ Requested[y] = generated_posts[b].key
          /\ Cardinality({j \in 1..Len(Requested) : ~Succeeds(Requested[j])}) <= Len(printed))

C30_Witness ==
  /\ gen_pc = "idle"
  /\ Len(generation_history) = 2
  /\ Len(generation_history[1].generated_posts) = 2
  /\ generation_history[1].generated_posts[1].key = <<"t","w","i","t","t","e","r">>
  /\ generation_history[1].generated_posts[2].key = <<"T","w","i","t","t","e","r">>
  /\ generation_history[2].generated_posts = <<>>
  /\ target_platforms.list = << <<"m","y","s","p","a","c","e">> >>
  /\ returned = <<>>
  /\ Len(printed) = 2
====
